---- MODULE Spec2Model ----
(***************************************************************************)
(* Model of vw/Image/Convolution.h: the correlation primitives, the        *)
(* standard 2D convolution view and the separable 2D convolution view.     *)
(* Pixels and kernel weights are integers (exact arithmetic).  Coordinates *)
(* are zero based as in the source; a pixel is addressed by <<x, y, p>>.   *)
(***************************************************************************)
EXTENDS Integers, Sequences, FiniteSets, TLC

(* ------------------------------ bounds --------------------------------- *)
\* Largest image extents and largest kernel extent tried.
MaxCols == 2
MaxRows == 2
MaxK == 2

(* ----------------------------- utilities ------------------------------- *)
\* C++ integer division truncates toward zero.
Quot(a, b) ==
  IF a >= 0 THEN a \div b ELSE -((-a) \div b)

Max(a, b) ==
  IF a >= b THEN a ELSE b

\* Sum of the values of a function with a finite domain.
RECURSIVE FnSum(_)
FnSum(f) ==
  IF DOMAIN f = {} THEN 0
  ELSE LET d == CHOOSE e \in DOMAIN f : TRUE
       IN f[d] + FnSum([e \in DOMAIN f \ {d} |-> f[e]])

Coords(c, r, n) ==
  (0 .. c - 1) \X (0 .. r - 1) \X (0 .. n - 1)

\* The function f held as the table of its values: the same function, its
\* values computed once.
Stored(f) ==
  IF f = <<>> THEN <<>> ELSE f

(* ------------------ images: ImageView, CropView, access ---------------- *)
\* ImageView<PixelT>: a buffer of cols x rows x planes pixels.
ImageView(c, r, n, pixels) ==
  [cols |-> c, rows |-> r, planes |-> n,
   data |-> [q \in Coords(c, r, n) |-> pixels[q]]]

\* crop( image, x, y, cols, rows ): the view whose pixel (i,j) is the
\* child's pixel (i+x, j+y); its extents are the ones given.
crop(buf, x, y, c, r) ==
  [child |-> buf, ci |-> x, cj |-> y, cols |-> c, rows |-> r,
   planes |-> buf.planes]

\* An image handed to a view as it is: the crop that changes nothing.
AsView(buf) ==
  crop(buf, 0, 0, buf.cols, buf.rows)

\* image.origin().advance(x,y,p) dereferenced: no bounds check.  A read
\* outside the allocation yields the wild value g.
RawAt(im, x, y, p, g) ==
  LET bx == x + im.ci
      by == y + im.cj
  IN IF /\ bx >= 0 /\ bx < im.child.cols
        /\ by >= 0 /\ by < im.child.rows
        /\ p >= 0 /\ p < im.child.planes
     THEN im.child.data[<<bx, by, p>>]
     ELSE g

RawInBounds(im, x, y, p) ==
  LET bx == x + im.ci
      by == y + im.cj
  IN /\ bx >= 0 /\ bx < im.child.cols
     /\ by >= 0 /\ by < im.child.rows
     /\ p >= 0 /\ p < im.child.planes

(* --------------------------- edge extension ---------------------------- *)
EdgePolicies == {"Zero", "Constant", "Periodic", "Reflect"}

Clamp(v, n) ==
  IF v < 0 THEN 0 ELSE IF v >= n THEN n - 1 ELSE v

Reflect(v, n) ==
  IF n = 1 THEN 0
  ELSE LET m == 2 * (n - 1)
           a == (IF v < 0 THEN -v ELSE v) % m
       IN IF a >= n THEN m - a ELSE a

\* edge_extend(image, edge)(x,y,p): the source read through the policy.
\* NoEdge is NoEdgeExtension: the child is read as it is.
edge_extend(im, edge, x, y, p, g) ==
  LET inside == x >= 0 /\ x < im.cols /\ y >= 0 /\ y < im.rows
  IN CASE edge = "NoEdge"   -> RawAt(im, x, y, p, g)
       [] edge = "Zero"     -> IF inside THEN RawAt(im, x, y, p, g) ELSE 0
       [] edge = "Constant" -> RawAt(im, Clamp(x, im.cols), Clamp(y, im.rows), p, g)
       [] edge = "Periodic" -> RawAt(im, x % im.cols, y % im.rows, p, g)
       [] edge = "Reflect"  -> RawAt(im, Reflect(x, im.cols), Reflect(y, im.rows), p, g)

\* BBox2i( x, y, width, height )
BBox2i(x, y, w, h) ==
  [x |-> x, y |-> y, w |-> w, h |-> h]

\* ImageView<PixelT> src = edge_extend( image, bbox, edge ): the rectangle
\* materialized through the policy into a plain buffer.
edge_extend_bbox(im, bbox, edge, g) ==
  [cols |-> bbox.w, rows |-> bbox.h, planes |-> im.planes,
   data |-> [q \in Coords(bbox.w, bbox.h, im.planes) |->
               edge_extend(im, edge, bbox.x + q[1], bbox.y + q[2], q[3], g)]]

(* ------------------------------ kernels -------------------------------- *)
Kernel(c, r, weights) ==
  [cols |-> c, rows |-> r,
   w |-> [q \in (0 .. c - 1) \X (0 .. r - 1) |-> weights[q]]]

\* Rotate180View<KernelT>: same extents, weight (i,j) is the child's weight
\* (cols-1-i, rows-1-j); child() gives the kernel back.
Rotate180View(k) ==
  [cols |-> k.cols, rows |-> k.rows,
   w |-> [q \in DOMAIN k.w |-> k.w[<<k.cols - 1 - q[1], k.rows - 1 - q[2]>>]],
   child |-> k]

(* --------------------- the core correlation functions ------------------ *)
\* for( i=n; i; --i ) { result += (*k)*(*s); s.next_col(); ++k; }
\* left is the loop counter, s and k are indexed by the samples consumed.
RECURSIVE correlate_1d_loop(_, _, _, _, _)
correlate_1d_loop(s, k, n, left, result) ==
  IF left = 0 THEN result
  ELSE correlate_1d_loop(s, k, n, left - 1, result + k[n - left] * s[n - left])

correlate_1d_at_point(s, k, n) ==
  correlate_1d_loop(s, k, n, n, 0)

RECURSIVE correlate_2d_cols(_, _, _, _, _, _)
correlate_2d_cols(s, k, cols, j, left, result) ==
  IF left = 0 THEN result
  ELSE correlate_2d_cols(s, k, cols, j, left - 1,
         result + k[<<cols - left, j>>] * s[<<cols - left, j>>])

RECURSIVE correlate_2d_rows(_, _, _, _, _, _)
correlate_2d_rows(s, k, cols, rows, left, result) ==
  IF left = 0 THEN result
  ELSE correlate_2d_rows(s, k, cols, rows, left - 1,
         correlate_2d_cols(s, k, cols, rows - left, cols, result))

\* s[<<i,j>>] is the source sample i columns and j rows after the start.
correlate_2d_at_point(s, k, cols, rows) ==
  correlate_2d_rows(s, k, cols, rows, rows, 0)

(* --------------------- the standard 2D convolution view --------------- *)
\* Mutant: m_kernel holds the kernel as given, not rotated.
ConvolutionView_unrotated(image, kernel, ci, cj, edge) ==
  [kind |-> "full", m_image |-> image, m_edge |-> edge,
   m_kernel |-> [cols |-> kernel.cols, rows |-> kernel.rows, w |-> kernel.w,
                 child |-> kernel],
   m_ci |-> ci, m_cj |-> cj]

\* ConvolutionView( image, kernel, ci, cj, edge ): m_kernel is a
\* Rotate180View of the kernel given.
ConvolutionView(image, kernel, ci, cj, edge) ==
  [kind |-> "full", m_image |-> image, m_edge |-> edge,
   m_kernel |-> Rotate180View(kernel), m_ci |-> ci, m_cj |-> cj]

\* Mutant: n/2 for (n-1)/2.
ConvolutionView_center_half(n) ==
  Quot(n, 2)

\* m_ci((kernel.cols()-1)/2): int32 arithmetic.
ConvolutionView_center(n) ==
  Quot(n - 1, 2)

ConvolutionView_default(image, kernel, edge) ==
  ConvolutionView(image, kernel, ConvolutionView_center(kernel.cols),
                  ConvolutionView_center(kernel.rows), edge)

\* int32 ci = (m_kernel.cols()-1-m_ci), cj = (m_kernel.rows()-1-m_cj);
ConvolutionView_ci(v) ==
  v.m_kernel.cols - 1 - v.m_ci

ConvolutionView_cj(v) ==
  v.m_kernel.rows - 1 - v.m_cj

\* Mutant: the test without its upper limit on x.
ConvolutionView_interior_open(v, x, y) ==
  /\ x >= ConvolutionView_ci(v)
  /\ y >= ConvolutionView_cj(v)
  /\ y <= v.m_image.rows - v.m_kernel.rows + ConvolutionView_cj(v)

\* Mutant: the test without its lower limits.
ConvolutionView_interior_nolower(v, x, y) ==
  /\ x <= v.m_image.cols - v.m_kernel.cols + ConvolutionView_ci(v)
  /\ y <= v.m_image.rows - v.m_kernel.rows + ConvolutionView_cj(v)

\* The test of operator(): the kernel footprint lies inside the image.
ConvolutionView_interior(v, x, y) ==
  /\ x >= ConvolutionView_ci(v)
  /\ y >= ConvolutionView_cj(v)
  /\ x <= v.m_image.cols - v.m_kernel.cols + ConvolutionView_ci(v)
  /\ y <= v.m_image.rows - v.m_kernel.rows + ConvolutionView_cj(v)

\* The samples the 2D primitive reads, starting at (x0,y0), unchecked.
RawWindow(im, x0, y0, p, cols, rows, g) ==
  [q \in (0 .. cols - 1) \X (0 .. rows - 1) |-> RawAt(im, x0 + q[1], y0 + q[2], p, g)]

\* Whether one of those unchecked reads leaves the allocation.
WindowWild(im, x0, y0, p, cols, rows) ==
  \E q \in (0 .. cols - 1) \X (0 .. rows - 1) :
     ~RawInBounds(im, x0 + q[1], y0 + q[2], p)

\* The same samples read through edge_extend(image, edge).
EdgeWindow(im, edge, x0, y0, p, cols, rows, g) ==
  [q \in (0 .. cols - 1) \X (0 .. rows - 1) |->
     edge_extend(im, edge, x0 + q[1], y0 + q[2], p, g)]

\* The first return of operator(): the primitive on the image itself.
\* wild: one of its reads left the image's allocation.
ConvolutionView_fast(v, x, y, p, g) ==
  LET ci == ConvolutionView_ci(v)
      cj == ConvolutionView_cj(v)
      kc == v.m_kernel.cols
      kr == v.m_kernel.rows
  IN [fast |-> TRUE,
      wild |-> WindowWild(v.m_image, x - ci, y - cj, p, kc, kr),
      value |-> correlate_2d_at_point(
                  RawWindow(v.m_image, x - ci, y - cj, p, kc, kr, g),
                  v.m_kernel.w, kc, kr)]

\* The second return: the primitive on edge_extend(m_image,m_edge).  Under
\* NoEdgeExtension its reads are as unchecked as those of the first.
ConvolutionView_slow(v, x, y, p, g) ==
  LET ci == ConvolutionView_ci(v)
      cj == ConvolutionView_cj(v)
      kc == v.m_kernel.cols
      kr == v.m_kernel.rows
  IN [fast |-> FALSE,
      wild |-> v.m_edge = "NoEdge" /\ WindowWild(v.m_image, x - ci, y - cj, p, kc, kr),
      value |-> correlate_2d_at_point(
                  EdgeWindow(v.m_image, v.m_edge, x - ci, y - cj, p, kc, kr, g),
                  v.m_kernel.w, kc, kr)]

\* operator()( x, y, p ): the value and the branch taken.
ConvolutionView_call(v, x, y, p, g) ==
  IF ConvolutionView_interior(v, x, y)
  THEN ConvolutionView_fast(v, x, y, p, g)
  ELSE ConvolutionView_slow(v, x, y, p, g)

\* Mutant: the crop takes the extents of the materialized rectangle.
ConvolutionView_prerasterize_halo(v, bbox, g) ==
  LET ci == ConvolutionView_ci(v)
      cj == ConvolutionView_cj(v)
      src_bbox == BBox2i(bbox.x - ci, bbox.y - cj,
                         bbox.w + (v.m_kernel.cols - 1),
                         bbox.h + (v.m_kernel.rows - 1))
      src == edge_extend_bbox(v.m_image, src_bbox, v.m_edge, g)
  IN ConvolutionView(crop(src, -src_bbox.x, -src_bbox.y, src_bbox.w, src_bbox.h),
                     v.m_kernel.child, v.m_ci, v.m_cj, "NoEdge")

\* Mutant: the materialized rectangle is one column short.
ConvolutionView_prerasterize_short(v, bbox, g) ==
  LET ci == ConvolutionView_ci(v)
      cj == ConvolutionView_cj(v)
      src_bbox == BBox2i(bbox.x - ci, bbox.y - cj,
                         bbox.w + (v.m_kernel.cols - 1) - 1,
                         bbox.h + (v.m_kernel.rows - 1))
      src == edge_extend_bbox(v.m_image, src_bbox, v.m_edge, g)
  IN ConvolutionView(crop(src, -src_bbox.x, -src_bbox.y, v.m_image.cols, v.m_image.rows),
                     v.m_kernel.child, v.m_ci, v.m_cj, "NoEdge")

\* Mutant: the crop offsets with the wrong sign.
ConvolutionView_prerasterize_sign(v, bbox, g) ==
  LET ci == ConvolutionView_ci(v)
      cj == ConvolutionView_cj(v)
      src_bbox == BBox2i(bbox.x - ci, bbox.y - cj,
                         bbox.w + (v.m_kernel.cols - 1),
                         bbox.h + (v.m_kernel.rows - 1))
      src == edge_extend_bbox(v.m_image, src_bbox, v.m_edge, g)
  IN ConvolutionView(crop(src, src_bbox.x, src_bbox.y, v.m_image.cols, v.m_image.rows),
                     v.m_kernel.child, v.m_ci, v.m_cj, "NoEdge")

\* prerasterize( bbox ): the halo is materialized through the edge policy,
\* cropped back to the image's frame, and convolved with the unflipped
\* kernel, the same origin and no edge extension.
ConvolutionView_prerasterize(v, bbox, g) ==
  LET ci == ConvolutionView_ci(v)
      cj == ConvolutionView_cj(v)
      src_bbox == BBox2i(bbox.x - ci, bbox.y - cj,
                         bbox.w + (v.m_kernel.cols - 1),
                         bbox.h + (v.m_kernel.rows - 1))
      src == edge_extend_bbox(v.m_image, src_bbox, v.m_edge, g)
  IN ConvolutionView(crop(src, -src_bbox.x, -src_bbox.y, v.m_image.cols, v.m_image.rows),
                     v.m_kernel.child, v.m_ci, v.m_cj, "NoEdge")

\* What operator() of src does at each pixel vw::rasterize( src, dest, bbox )
\* evaluates: every pixel of bbox, every plane of the source.
vw_rasterize_calls(src, bbox, g) ==
  Stored([q \in Coords(bbox.w, bbox.h, src.m_image.planes) |->
            ConvolutionView_call(src, bbox.x + q[1], bbox.y + q[2], q[3], g)])

\* The values of those evaluations stored in dest.
vw_rasterize_store(calls, dest) ==
  [dest EXCEPT !.data =
     [q \in DOMAIN dest.data |->
        IF q \in DOMAIN calls THEN calls[q].value ELSE dest.data[q]]]

\* vw::rasterize( src, dest, bbox )
vw_rasterize(src, dest, bbox, g) ==
  vw_rasterize_store(vw_rasterize_calls(src, bbox, g), dest)

\* rasterize( dest, bbox ) with what it went through.  dest: the destination
\* afterwards; pre: the view prerasterize handed to vw::rasterize (the
\* rectangle of source coordinates its buffer holds, its kernel, origin and
\* edge policy) and, per pixel, the branch of operator() taken and whether
\* a read left the buffer; wild: a read did.
ConvolutionView_rasterized(v, dest, bbox, g) ==
  LET pre == ConvolutionView_prerasterize(v, bbox, g)
      calls == vw_rasterize_calls(pre, bbox, g)
  IN [dest |-> vw_rasterize_store(calls, dest),
      pre |-> [src_bbox |-> BBox2i(-pre.m_image.ci, -pre.m_image.cj,
                                   pre.m_image.child.cols, pre.m_image.child.rows),
               m_kernel |-> pre.m_kernel, m_ci |-> pre.m_ci, m_cj |-> pre.m_cj,
               m_edge |-> pre.m_edge,
               trace |-> [q \in DOMAIN calls |->
                            [fast |-> calls[q].fast, wild |-> calls[q].wild]]],
      wild |-> \E q \in DOMAIN calls : calls[q].wild]

\* rasterize( dest, bbox )
ConvolutionView_rasterize(v, dest, bbox, g) ==
  ConvolutionView_rasterized(v, dest, bbox, g).dest

(* --------------------- the separable 2D convolution view --------------- *)
\* Kernel factors are sequences; factor i of the source is k[i+1] here.
SeparableConvolutionView(image, ik, jk, ci, cj, edge) ==
  [kind |-> "sep", m_image |-> image, m_i_kernel |-> ik, m_j_kernel |-> jk,
   m_ci |-> ci, m_cj |-> cj, m_edge |-> edge]

\* m_ci((m_i_kernel.size()-1)/2): size() is an unsigned size_t, so for an
\* empty sequence size()-1 wraps to SIZE_MAX and the quotient is narrowed to
\* int32: -1 where size_t has 64 bits, 2147483647 where it has 32.
SeparableConvolutionView_center(n) ==
  IF n >= 1 THEN {(n - 1) \div 2} ELSE {-1, 2147483647}

\* The kernel that has not been built: ImageView<KernelT>() has no pixels.
EmptyKernel ==
  [cols |-> 0, rows |-> 0, w |-> <<>>]

\* Mutant: the weights stored without the reversal, m_kernel2d(i,j)=I[i]*J[j].
generate2DKernel_unflipped(v) ==
  LET si == Len(v.m_i_kernel)
      sj == Len(v.m_j_kernel)
      ni == IF si # 0 THEN si ELSE 1
      nj == IF sj # 0 THEN sj ELSE 1
  IN [cols |-> ni, rows |-> nj,
      w |-> [q \in (0 .. ni - 1) \X (0 .. nj - 1) |->
               (IF si # 0 THEN v.m_i_kernel[q[1] + 1] ELSE 1)
               * (IF sj # 0 THEN v.m_j_kernel[q[2] + 1] ELSE 1)]]

\* Mutant: an empty factor sequence stands for the weight 0.
generate2DKernel_zero(v) ==
  LET si == Len(v.m_i_kernel)
      sj == Len(v.m_j_kernel)
      ni == IF si # 0 THEN si ELSE 1
      nj == IF sj # 0 THEN sj ELSE 1
  IN [cols |-> ni, rows |-> nj,
      w |-> [q \in (0 .. ni - 1) \X (0 .. nj - 1) |->
               (IF si # 0 THEN v.m_i_kernel[(ni - 1 - q[1]) + 1] ELSE 0)
               * (IF sj # 0 THEN v.m_j_kernel[(nj - 1 - q[2]) + 1] ELSE 0)]]

\* generate2DKernel(): the value m_kernel2d holds afterwards.
generate2DKernel(v) ==
  LET si == Len(v.m_i_kernel)
      sj == Len(v.m_j_kernel)
      ni == IF si # 0 THEN si ELSE 1
      nj == IF sj # 0 THEN sj ELSE 1
  IN [cols |-> ni, rows |-> nj,
      w |-> [q \in (0 .. ni - 1) \X (0 .. nj - 1) |->
               (IF si # 0 THEN v.m_i_kernel[(ni - 1 - q[1]) + 1] ELSE 1)
               * (IF sj # 0 THEN v.m_j_kernel[(nj - 1 - q[2]) + 1] ELSE 1)]]

\* Mutant: the test inverted, the kernel is built when it has columns.
SeparableConvolutionView_kernel2d_inverted(v, k2d) ==
  IF k2d.cols # 0 THEN generate2DKernel(v) ELSE k2d

\* Mutant: the kernel is taken for unbuilt on every call.
SeparableConvolutionView_unbuilt_always(k2d) ==
  TRUE

\* m_kernel2d.cols()==0
SeparableConvolutionView_unbuilt(k2d) ==
  k2d.cols = 0

\* if( m_kernel2d.cols()==0 ) generate2DKernel();
SeparableConvolutionView_kernel2d(v, k2d) ==
  IF SeparableConvolutionView_unbuilt(k2d) THEN generate2DKernel(v) ELSE k2d

\* m_kernel2d.set_size( ni, nj ): the extents are set, the weights are
\* whatever the new storage holds.
generate2DKernel_set_size(v, g) ==
  LET W == generate2DKernel(v)
  IN [cols |-> W.cols, rows |-> W.rows, w |-> [q \in DOMAIN W.w |-> g]]

\* The cell the n-th assignment of generate2DKernel's loops writes, n from 0:
\* i is the outer index, j the inner one, the cell is (ni-1-i, nj-1-j).
generate2DKernel_cell(v, n) ==
  LET W == generate2DKernel(v)
  IN <<W.cols - 1 - (n \div W.rows), W.rows - 1 - (n % W.rows)>>

\* The kernel after that assignment.
generate2DKernel_assign(v, k2d, n) ==
  LET c == generate2DKernel_cell(v, n)
  IN [k2d EXCEPT !.w[c] = generate2DKernel(v).w[c]]

SeparableConvolutionView_ci(v) ==
  IF Len(v.m_i_kernel) # 0 THEN Len(v.m_i_kernel) - 1 - v.m_ci ELSE 0

SeparableConvolutionView_cj(v) ==
  IF Len(v.m_j_kernel) # 0 THEN Len(v.m_j_kernel) - 1 - v.m_cj ELSE 0

SeparableConvolutionView_interior(v, k2d, x, y) ==
  /\ x >= SeparableConvolutionView_ci(v)
  /\ y >= SeparableConvolutionView_cj(v)
  /\ x <= v.m_image.cols - k2d.cols + SeparableConvolutionView_ci(v)
  /\ y <= v.m_image.rows - k2d.rows + SeparableConvolutionView_cj(v)

\* The first return of operator(): the primitive on the image itself, with
\* the kernel m_kernel2d holds after the first statement.
SeparableConvolutionView_fast(v, k2d, x, y, p, g) ==
  LET ci == SeparableConvolutionView_ci(v)
      cj == SeparableConvolutionView_cj(v)
  IN [fast |-> TRUE,
      wild |-> WindowWild(v.m_image, x - ci, y - cj, p, k2d.cols, k2d.rows),
      value |-> correlate_2d_at_point(
                  RawWindow(v.m_image, x - ci, y - cj, p, k2d.cols, k2d.rows, g),
                  k2d.w, k2d.cols, k2d.rows)]

\* The second return: the primitive on edge_extend(m_image,m_edge).
SeparableConvolutionView_slow(v, k2d, x, y, p, g) ==
  LET ci == SeparableConvolutionView_ci(v)
      cj == SeparableConvolutionView_cj(v)
  IN [fast |-> FALSE,
      wild |-> FALSE,
      value |-> correlate_2d_at_point(
                  EdgeWindow(v.m_image, v.m_edge, x - ci, y - cj, p,
                             k2d.cols, k2d.rows, g),
                  k2d.w, k2d.cols, k2d.rows)]

\* operator()( x, y, p ): the value and the branch taken.
SeparableConvolutionView_call(v, k2d, x, y, p, g) ==
  IF SeparableConvolutionView_interior(v, k2d, x, y)
  THEN SeparableConvolutionView_fast(v, k2d, x, y, p, g)
  ELSE SeparableConvolutionView_slow(v, k2d, x, y, p, g)

\* transpose( image ): columns and rows exchanged.
transpose(buf) ==
  [cols |-> buf.rows, rows |-> buf.cols, planes |-> buf.planes,
   data |-> [q \in Coords(buf.rows, buf.cols, buf.planes) |->
               buf.data[<<q[2], q[1], q[3]>>]]]

\* *scol after i calls of next_col(), from pixel (x,y,p) of a buffer.
BufAt(buf, x, y, p, g) ==
  IF x >= 0 /\ x < buf.cols /\ y >= 0 /\ y < buf.rows /\ p >= 0 /\ p < buf.planes
  THEN buf.data[<<x, y, p>>]
  ELSE g

\* Mutant: kernel.begin() for kernel.rbegin().
convolve_1d_forward(src, dest, kernel, g) ==
  LET n == Len(kernel)
      fk == [i \in 0 .. n - 1 |-> kernel[i + 1]]
  IN [dest |-> [dest EXCEPT !.data =
                  [q \in DOMAIN dest.data |->
                     IF q[3] < src.planes
                     THEN correlate_1d_at_point(
                            [i \in 0 .. n - 1 |-> BufAt(src, q[1] + i, q[2], q[3], g)],
                            fk, n)
                     ELSE dest.data[q]]],
      overrun |-> src.planes > dest.planes /\ dest.cols > 0 /\ dest.rows > 0]

\* convolve_1d( src, dest, kernel ): for every plane of SRC, every row and
\* column of DEST, the 1D primitive over kernel.rbegin().  dest: the buffer
\* afterwards; overrun: a store went to a plane dest does not have.
convolve_1d(src, dest, kernel, g) ==
  LET n == Len(kernel)
      rk == [i \in 0 .. n - 1 |-> kernel[n - i]]
  IN [dest |-> [dest EXCEPT !.data =
                  [q \in DOMAIN dest.data |->
                     IF q[3] < src.planes
                     THEN correlate_1d_at_point(
                            [i \in 0 .. n - 1 |-> BufAt(src, q[1] + i, q[2], q[3], g)],
                            rk, n)
                     ELSE dest.data[q]]],
      overrun |-> src.planes > dest.planes /\ dest.cols > 0 /\ dest.rows > 0]

\* ImageView<pixel_type>( cols, rows, planes=1 ): storage not yet written.
Stale == -1

NewImageView(c, r, n) ==
  [cols |-> c, rows |-> r, planes |-> n,
   data |-> [q \in Coords(c, r, n) |-> Stale]]

\* Mutant: the rectangle is extended after the region only, by ci and cj.
SeparableConvolutionView_child_bbox_after(v, bbox) ==
  LET ni == Len(v.m_i_kernel)
      nj == Len(v.m_j_kernel)
  IN BBox2i(bbox.x, bbox.y,
            bbox.w + (IF ni # 0 THEN v.m_ci ELSE 0),
            bbox.h + (IF nj # 0 THEN v.m_cj ELSE 0))

\* BBox2i child_bbox = bbox, then for each non-empty factor min() is moved
\* back by n-c-1 and max() forward by c.
SeparableConvolutionView_child_bbox(v, bbox) ==
  LET ni == Len(v.m_i_kernel)
      nj == Len(v.m_j_kernel)
  IN BBox2i(bbox.x - (IF ni # 0 THEN ni - v.m_ci - 1 ELSE 0),
            bbox.y - (IF nj # 0 THEN nj - v.m_cj - 1 ELSE 0),
            bbox.w + (IF ni # 0 THEN ni - v.m_ci - 1 ELSE 0)
                   + (IF ni # 0 THEN v.m_ci ELSE 0),
            bbox.h + (IF nj # 0 THEN nj - v.m_cj - 1 ELSE 0)
                   + (IF nj # 0 THEN v.m_cj ELSE 0))

\* Whether a read of convolve_1d( src, dest, kernel ) leaves src: for every
\* plane of src, row and column of dest it reads kernel.size() samples of
\* that row of src, from that column on.
convolve_1d_wild(src, dest, kernel) ==
  \E p \in 0 .. src.planes - 1, y \in 0 .. dest.rows - 1, x \in 0 .. dest.cols - 1,
     i \in 0 .. Len(kernel) - 1 :
       ~(x + i < src.cols /\ y < src.rows)

\* The buffers of rasterize( dest, bbox ) and whether one of its passes reads
\* outside the buffer it reads from.
SeparableConvolutionView_buffers(v, dest, bbox) ==
  LET ni == Len(v.m_i_kernel)
      nj == Len(v.m_j_kernel)
      child_bbox == SeparableConvolutionView_child_bbox(v, bbox)
      src_buf == [cols |-> child_bbox.w, rows |-> child_bbox.h, planes |-> v.m_image.planes]
      work == [cols |-> bbox.w, rows |-> child_bbox.h, planes |-> 1]
      tr(b) == [cols |-> b.rows, rows |-> b.cols, planes |-> b.planes]
  IN [child_bbox |-> child_bbox,
      passes |-> (IF ni > 0 THEN 1 ELSE 0) + (IF nj > 0 THEN 1 ELSE 0),
      wild |-> IF ni = 0 /\ nj = 0 THEN FALSE
               ELSE IF ni > 0 /\ nj > 0
               THEN \/ convolve_1d_wild(src_buf, work, v.m_i_kernel)
                    \/ convolve_1d_wild(tr(work), tr(dest), v.m_j_kernel)
               ELSE IF ni > 0
               THEN convolve_1d_wild(src_buf, dest, v.m_i_kernel)
               ELSE convolve_1d_wild(tr(src_buf), tr(dest), v.m_j_kernel)]

\* rasterize( dest, bbox ).  dest: the destination afterwards; overrun: the
\* row pass stored beyond the work buffer.
SeparableConvolutionView_rasterize(v, dest, bbox, g) ==
  LET ni == Len(v.m_i_kernel)
      nj == Len(v.m_j_kernel)
      child_bbox == SeparableConvolutionView_child_bbox(v, bbox)
      src_buf == edge_extend_bbox(v.m_image, child_bbox, v.m_edge, g)
  IN IF ni = 0 /\ nj = 0
     THEN [dest |-> [dest EXCEPT !.data =
                       [q \in DOMAIN dest.data |->
                          IF q[3] < v.m_image.planes
                          THEN edge_extend(v.m_image, v.m_edge,
                                           bbox.x + q[1], bbox.y + q[2], q[3], g)
                          ELSE dest.data[q]]],
           overrun |-> FALSE]
     ELSE IF ni > 0 /\ nj > 0
     THEN LET work == NewImageView(bbox.w, child_bbox.h, 1)
              rows == convolve_1d(src_buf, work, v.m_i_kernel, g)
              cols == convolve_1d(transpose(rows.dest), transpose(dest),
                                  v.m_j_kernel, g)
          IN [dest |-> transpose(cols.dest),
              overrun |-> rows.overrun \/ cols.overrun]
     ELSE IF ni > 0
     THEN convolve_1d(src_buf, dest, v.m_i_kernel, g)
     ELSE LET cols == convolve_1d(transpose(src_buf), transpose(dest),
                                  v.m_j_kernel, g)
          IN [dest |-> transpose(cols.dest), overrun |-> cols.overrun]

(* ------------------------------- inputs -------------------------------- *)
\* An image whose pixels are all different.
RampImage(c, r, n) ==
  ImageView(c, r, n, [q \in Coords(c, r, n) |-> 1 + q[1] + c * q[2] + c * r * q[3]])

OnesImage(c, r, n) ==
  ImageView(c, r, n, [q \in Coords(c, r, n) |-> 1])

\* A kernel whose weights are all different; the 1x1 one is the weight 1.
RampKernel(c, r) ==
  Kernel(c, r, [q \in (0 .. c - 1) \X (0 .. r - 1) |-> 1 + q[1] + c * q[2]])

OnesKernel(c, r) ==
  Kernel(c, r, [q \in (0 .. c - 1) \X (0 .. r - 1) |-> 1])

\* Factor sequences of length n; the two axes get different weights.
IFactors(n) ==
  [i \in 1 .. n |-> i]

JFactors(n) ==
  [j \in 1 .. n |-> IF n = 1 THEN 1 ELSE j + 1]

OnesFactors(n) ==
  [i \in 1 .. n |-> 1]

\* The origins handed to the constructor that takes one: every kernel
\* position but the centre, which the other constructor covers.
ExplicitOrigins(nc, nr) ==
  ((0 .. Max(nc - 1, 0)) \X (0 .. Max(nr - 1, 0)))
    \ {<<Max(nc - 1, 0) \div 2, Max(nr - 1, 0) \div 2>>}

\* Values an unchecked read outside an allocation, or storage overwritten by
\* a store outside one, may hold.
Wild == {-7, -9}

\* One of them.  What a call does depends on those values only when one of
\* its reads or stores leaves an allocation: a call that stays inside is
\* evaluated once, with this one.
Quiet == CHOOSE g \in Wild : TRUE

(* ------------------------------- state --------------------------------- *)
VARIABLES
  view,        \* the view object: its members, immutable after construction
  ctor,        \* which constructor built it: "default" or "explicit" origin
  m_kernel2d,  \* the separable view's mutable memoized 2D kernel
  call         \* the request in progress and what it returned

vars == <<view, ctor, m_kernel2d, call>>

Idle == [op |-> "idle"]

\* Images of one plane and of several.
PlaneCounts == {1, 2}

Images ==
  {RampImage(c, r, n) : <<c, r, n>> \in (1 .. MaxCols) \X (1 .. MaxRows) \X PlaneCounts}

\* Extents of a 2D kernel: no pixels at all, or at least one each way.
KernelSizes ==
  {<<0, 0>>} \cup ((1 .. MaxK) \X (1 .. MaxK))

\* Lengths of the two factor sequences: either may be empty.
FactorSizes ==
  (0 .. MaxK) \X (0 .. MaxK)

FullViews ==
  {<<ConvolutionView_default(AsView(t[1]), RampKernel(t[2][1], t[2][2]), t[3]), "default">> :
      t \in Images \X KernelSizes \X EdgePolicies}
  \cup
  UNION {{<<ConvolutionView(AsView(t[1]), RampKernel(t[2][1], t[2][2]), o[1], o[2], t[3]),
            "explicit">> :
            o \in ExplicitOrigins(t[2][1], t[2][2])} :
         t \in Images \X KernelSizes \X EdgePolicies}

SepViews ==
  UNION {{<<SeparableConvolutionView(AsView(t[1]), IFactors(t[2][1]), JFactors(t[2][2]),
                                     o[1], o[2], t[3]), "default">> :
            o \in SeparableConvolutionView_center(t[2][1])
                  \X SeparableConvolutionView_center(t[2][2])} :
         t \in Images \X FactorSizes \X EdgePolicies}
  \cup
  UNION {{<<SeparableConvolutionView(AsView(t[1]), IFactors(t[2][1]), JFactors(t[2][2]),
                                     o[1], o[2], t[3]), "explicit">> :
            o \in ExplicitOrigins(t[2][1], t[2][2])} :
         t \in Images \X FactorSizes \X EdgePolicies}

\* The scenario of the 5x5 all-ones image, the 3x3 all-ones kernel and zero
\* padding, as a full view and as a separable view.
ScenarioViews ==
  {<<ConvolutionView_default(AsView(OnesImage(5, 5, 1)), OnesKernel(3, 3), "Zero"),
     "default">>}
  \cup
  {<<SeparableConvolutionView(AsView(OnesImage(5, 5, 1)), OnesFactors(3), OnesFactors(3),
                              ci, cj, "Zero"), "default">> :
      <<ci, cj>> \in SeparableConvolutionView_center(3)
                     \X SeparableConvolutionView_center(3)}

\* Kernels of extents 5 and 4 built with the default origin.
CenterViews ==
  {<<ConvolutionView_default(AsView(RampImage(2, 2, 1)), RampKernel(5, 4), "Constant"),
     "default">>}
  \cup
  {<<SeparableConvolutionView(AsView(RampImage(2, 2, 1)), IFactors(5), JFactors(4),
                              ci, cj, "Constant"), "default">> :
      <<ci, cj>> \in SeparableConvolutionView_center(5)
                     \X SeparableConvolutionView_center(4)}

Init ==
  /\ \E c \in FullViews \cup SepViews \cup ScenarioViews \cup CenterViews :
        /\ view = c[1]
        /\ ctor = c[2]
  /\ m_kernel2d = EmptyKernel
  /\ call = Idle

(* ------------------------------ requests ------------------------------- *)
\* The coordinates asked for: the image and the ring of pixels around it.
XRange == (-1) .. view.m_image.cols
YRange == (-1) .. view.m_image.rows
PRange == 0 .. (view.m_image.planes - 1)

\* The regions asked for: every 1x1 and 2x2 square of that window, and the
\* whole image.
Boxes ==
  {BBox2i(t[1], t[2], t[3], t[3]) :
     t \in {t \in XRange \X YRange \X {1, 2} :
              /\ t[1] + t[3] - 1 <= view.m_image.cols
              /\ t[2] + t[3] - 1 <= view.m_image.rows}}
  \cup {BBox2i(0, 0, view.m_image.cols, view.m_image.rows)}

\* view(x,y,p) on the full view.
PointFull(x, y, p) ==
  /\ call = Idle
  /\ view.kind = "full"
  /\ LET r0 == ConvolutionView_call(view, x, y, p, Quiet)
     IN \E g \in (IF r0.wild THEN Wild ELSE {Quiet}) :
        LET r == IF g = Quiet THEN r0 ELSE ConvolutionView_call(view, x, y, p, g)
        IN call' = [op |-> "point", x |-> x, y |-> y, p |-> p,
                    value |-> r.value, fast |-> r.fast, wild |-> r.wild,
                    built |-> FALSE]
  /\ UNCHANGED <<view, ctor, m_kernel2d>>

\* view(x,y,p) on the separable view: the 2D kernel is built when it has
\* no columns.
PointSep(x, y, p) ==
  /\ call = Idle
  /\ view.kind = "sep"
  /\ m_kernel2d' = SeparableConvolutionView_kernel2d(view, m_kernel2d)
  /\ LET r0 == SeparableConvolutionView_call(view, m_kernel2d', x, y, p, Quiet)
     IN \E g \in (IF r0.wild THEN Wild ELSE {Quiet}) :
        LET r == IF g = Quiet THEN r0
                 ELSE SeparableConvolutionView_call(view, m_kernel2d', x, y, p, g)
        IN call' = [op |-> "point", x |-> x, y |-> y, p |-> p,
                    value |-> r.value, fast |-> r.fast, wild |-> r.wild,
                    built |-> (m_kernel2d.cols = 0)]
  /\ UNCHANGED <<view, ctor>>

\* view.rasterize( dest, bbox ) on the full view, dest a buffer of the
\* region's size and the image's planes.
RasterizeFull(b) ==
  /\ call = Idle
  /\ view.kind = "full"
  /\ LET dest == NewImageView(b.w, b.h, view.m_image.planes)
         r0 == ConvolutionView_rasterized(view, dest, b, Quiet)
     IN \E g \in (IF r0.wild THEN Wild ELSE {Quiet}) :
        LET r == IF g = Quiet THEN r0 ELSE ConvolutionView_rasterized(view, dest, b, g)
        IN call' = [op |-> "rasterize", bbox |-> b, dest |-> r.dest,
                    overrun |-> FALSE, pre |-> r.pre]
  /\ UNCHANGED <<view, ctor, m_kernel2d>>

\* What a store beyond the work buffer may leave in the planes of dest the
\* call did not write: their old content, or whatever the store put there.
Overrun(dest, planes, hit, g) ==
  [dest EXCEPT !.data =
     [q \in DOMAIN dest.data |-> IF hit /\ q[3] >= planes THEN g ELSE dest.data[q]]]

\* view.rasterize( dest, bbox ) on the separable view.
RasterizeSep(b) ==
  /\ call = Idle
  /\ view.kind = "sep"
  /\ LET dest == NewImageView(b.w, b.h, view.m_image.planes)
         buf == SeparableConvolutionView_buffers(view, dest, b)
         r0 == SeparableConvolutionView_rasterize(view, dest, b, Quiet)
     IN \E g \in (IF buf.wild \/ r0.overrun THEN Wild ELSE {Quiet}) :
        LET r == IF g = Quiet \/ ~buf.wild THEN r0
                 ELSE SeparableConvolutionView_rasterize(view, dest, b, g)
        IN \E hit \in (IF r.overrun THEN BOOLEAN ELSE {FALSE}) :
              call' = [op |-> "rasterize", bbox |-> b,
                       dest |-> Overrun(r.dest, 1, hit, g),
                       overrun |-> r.overrun,
                       buf |-> buf]
  /\ UNCHANGED <<view, ctor, m_kernel2d>>

\* The request returns and the caller takes its result.
Return ==
  /\ call # Idle
  /\ call' = Idle
  /\ UNCHANGED <<view, ctor, m_kernel2d>>

Next ==
  \/ call = Idle /\ \E x \in XRange, y \in YRange, p \in PRange : PointFull(x, y, p)
  \/ call = Idle /\ \E x \in XRange, y \in YRange, p \in PRange : PointSep(x, y, p)
  \/ call = Idle /\ \E b \in Boxes : RasterizeFull(b)
  \/ call = Idle /\ \E b \in Boxes : RasterizeSep(b)
  \/ Return

Spec == Init /\ [][Next]_vars

\* The full view alone.
InitFull == Init /\ view.kind = "full"

NextFull ==
  \/ call = Idle /\ \E x \in XRange, y \in YRange, p \in PRange : PointFull(x, y, p)
  \/ call = Idle /\ \E b \in Boxes : RasterizeFull(b)
  \/ Return

SpecFull == InitFull /\ [][NextFull]_vars

\* The separable view alone.
InitSep == Init /\ view.kind = "sep"

NextSep ==
  \/ call = Idle /\ \E x \in XRange, y \in YRange, p \in PRange : PointSep(x, y, p)
  \/ call = Idle /\ \E b \in Boxes : RasterizeSep(b)
  \/ Return

SpecSep == InitSep /\ [][NextSep]_vars

\* The halves of a region: it is cut by a vertical or a horizontal line.
Halves(b) ==
  UNION {{BBox2i(b.x, b.y, k, b.h), BBox2i(b.x + k, b.y, b.w - k, b.h)} :
           k \in 1 .. b.w - 1}
  \cup
  UNION {{BBox2i(b.x, b.y, b.w, k), BBox2i(b.x, b.y + k, b.w, b.h - k)} :
           k \in 1 .. b.h - 1}

\* After a region, one of its halves is rasterized into a buffer of its own
\* by a second call of rasterize on the full view.
TileFull(t) ==
  /\ call.op = "rasterize"
  /\ view.kind = "full"
  /\ t \in Halves(call.bbox)
  /\ \E g \in Wild :
        call' = [op |-> "tile", bbox |-> call.bbox, dest |-> call.dest,
                 tbox |-> t,
                 tile |-> ConvolutionView_rasterize(
                            view, NewImageView(t.w, t.h, view.m_image.planes), t, g),
                 overrun |-> call.overrun]
  /\ UNCHANGED <<view, ctor, m_kernel2d>>

\* The same on the separable view.
TileSep(t) ==
  /\ call.op = "rasterize"
  /\ view.kind = "sep"
  /\ t \in Halves(call.bbox)
  /\ \E g \in Wild :
        LET r == SeparableConvolutionView_rasterize(
                   view, NewImageView(t.w, t.h, view.m_image.planes), t, g)
        IN \E hit \in (IF r.overrun THEN BOOLEAN ELSE {FALSE}) :
              call' = [op |-> "tile", bbox |-> call.bbox, dest |-> call.dest,
                       tbox |-> t,
                       tile |-> Overrun(r.dest, 1, hit, g),
                       overrun |-> call.overrun \/ r.overrun]
  /\ UNCHANGED <<view, ctor, m_kernel2d>>

TileBoxes ==
  IF call.op = "rasterize" THEN Halves(call.bbox) ELSE {}

NextTiles ==
  \/ call = Idle /\ \E b \in Boxes : RasterizeFull(b)
  \/ call = Idle /\ \E b \in Boxes : RasterizeSep(b)
  \/ \E t \in TileBoxes : TileFull(t)
  \/ \E t \in TileBoxes : TileSep(t)
  \/ Return

\* Rasterization of regions and of their halves, on both views.
SpecTiles == Init /\ [][NextTiles]_vars

\* Point evaluation alone, on both views.
NextPoint ==
  \/ call = Idle /\ \E x \in XRange, y \in YRange, p \in PRange : PointFull(x, y, p)
  \/ call = Idle /\ \E x \in XRange, y \in YRange, p \in PRange : PointSep(x, y, p)
  \/ Return

SpecPoint == Init /\ [][NextPoint]_vars

\* view.prerasterize( bbox ) on the separable view: a buffer of the region's
\* size and the image's planes is allocated, rasterized into and returned.
PrerasterizeSep(b) ==
  /\ call = Idle
  /\ view.kind = "sep"
  /\ LET dest == NewImageView(b.w, b.h, view.m_image.planes)
         buf == SeparableConvolutionView_buffers(view, dest, b)
         r0 == SeparableConvolutionView_rasterize(view, dest, b, Quiet)
     IN \E g \in (IF buf.wild \/ r0.overrun THEN Wild ELSE {Quiet}) :
        LET r == IF g = Quiet \/ ~buf.wild THEN r0
                 ELSE SeparableConvolutionView_rasterize(view, dest, b, g)
        IN \E hit \in (IF r.overrun THEN BOOLEAN ELSE {FALSE}) :
              call' = [op |-> "prerasterize", bbox |-> b,
                       dest |-> Overrun(r.dest, 1, hit, g),
                       overrun |-> r.overrun]
  /\ UNCHANGED <<view, ctor, m_kernel2d>>

\* One separable view of a one-plane image, used from one thread: point
\* evaluations, rasterize and prerasterize calls in any order.
InitMemo == InitSep /\ view.m_image.planes = 1

NextMemo ==
  \/ call = Idle /\ \E x \in XRange, y \in YRange, p \in PRange : PointSep(x, y, p)
  \/ call = Idle /\ \E b \in Boxes : RasterizeSep(b)
  \/ call = Idle /\ \E b \in Boxes : PrerasterizeSep(b)
  \/ Return

SpecMemo == InitMemo /\ [][NextMemo]_vars

(* ---------------- two rasterize calls on one view at once --------------- *)
\* A buffer a call does not hold: not yet allocated, or freed.
NoBuffer == NewImageView(0, 0, 0)

\* A call of rasterize( dest, bbox ) about to start, dest a buffer of the
\* region's size and the image's planes that the caller owns.
ThreadStart(b) ==
  [pc |-> "begin", bbox |-> b, src |-> NoBuffer, work |-> NoBuffer,
   dest |-> NewImageView(b.w, b.h, view.m_image.planes), overrun |-> FALSE]

\* The number of 1D passes rasterize of the separable view makes.
SeparableConvolutionView_passes(v) ==
  (IF Len(v.m_i_kernel) > 0 THEN 1 ELSE 0) + (IF Len(v.m_j_kernel) > 0 THEN 1 ELSE 0)

\* The regions two threads share out: the 2x2 square across the corner of
\* the image and the whole image, cut in two.
ConcBoxes ==
  {BBox2i(-1, -1, 2, 2), BBox2i(0, 0, view.m_image.cols, view.m_image.rows)}

ConcPairs ==
  UNION {{<<BBox2i(b.x, b.y, k, b.h), BBox2i(b.x + k, b.y, b.w - k, b.h)>> :
            k \in 1 .. b.w - 1}
         \cup
         {<<BBox2i(b.x, b.y, b.w, k), BBox2i(b.x, b.y + k, b.w, b.h - k)>> :
            k \in 1 .. b.h - 1} : b \in ConcBoxes}

\* Two threads call rasterize on the same view for the two halves of a
\* region, each with a destination buffer of its own.
Fork(pair) ==
  /\ call = Idle
  /\ call' = [op |-> "concurrent", t |-> <<ThreadStart(pair[1]), ThreadStart(pair[2])>>]
  /\ UNCHANGED <<view, ctor, m_kernel2d>>

\* Thread n reads the members of the view and materializes its source
\* rectangle in a buffer of its own (lines 164-168 and 274-281); with no
\* factor the separable view rasterizes the edge-extended source at once.
Enter(n) ==
  /\ call.op = "concurrent"
  /\ call.t[n].pc = "begin"
  /\ \E g \in Wild :
        LET th == call.t[n]
        IN call' =
             [call EXCEPT !.t[n] =
                IF view.kind = "full"
                THEN [th EXCEPT !.pc = "last",
                                !.src = ConvolutionView_prerasterize(view, th.bbox, g)]
                ELSE IF SeparableConvolutionView_passes(view) = 0
                THEN [th EXCEPT !.pc = "done",
                                !.dest = SeparableConvolutionView_rasterize(
                                           view, th.dest, th.bbox, g).dest]
                ELSE [th EXCEPT !.pc = IF SeparableConvolutionView_passes(view) = 2
                                       THEN "rows" ELSE "last",
                                !.src = edge_extend_bbox(
                                          view.m_image,
                                          SeparableConvolutionView_child_bbox(view, th.bbox),
                                          view.m_edge, g)]]
  /\ UNCHANGED <<view, ctor, m_kernel2d>>

\* What a store beyond a buffer leaves in a buffer of another call.
Clobber(buf, g) ==
  [buf EXCEPT !.data = [q \in DOMAIN buf.data |-> g]]

\* Thread n runs the row pass of the two-pass branch into its work buffer
\* and frees the source buffer (lines 283-285).  Stores beyond the work
\* buffer land nowhere that is read again, in the planes of the thread's
\* own destination, or in the buffer the other thread is working from.
RowPass(n) ==
  /\ call.op = "concurrent"
  /\ call.t[n].pc = "rows"
  /\ \E g \in Wild :
        LET th == call.t[n]
            ot == call.t[3 - n]
            r == convolve_1d(th.src,
                             NewImageView(th.bbox.w,
                                          SeparableConvolutionView_child_bbox(view, th.bbox).h,
                                          1),
                             view.m_i_kernel, g)
        IN \E hit \in (IF r.overrun THEN {"none", "own", "other"} ELSE {"none"}) :
              call' =
                [call EXCEPT
                   !.t[n] = [th EXCEPT !.pc = "last", !.src = NoBuffer,
                                       !.work = r.dest,
                                       !.overrun = r.overrun,
                                       !.dest = Overrun(th.dest, 1, hit = "own", g)],
                   !.t[3 - n] = IF hit = "other"
                                THEN [ot EXCEPT !.src = Clobber(ot.src, g),
                                                !.work = Clobber(ot.work, g)]
                                ELSE ot]
  /\ UNCHANGED <<view, ctor, m_kernel2d>>

\* Thread n runs the pass that writes its destination: vw::rasterize of the
\* prerasterized full view (line 173), the only pass of a separable view
\* with one factor (lines 289, 292), or the column pass (line 286).
LastPass(n) ==
  /\ call.op = "concurrent"
  /\ call.t[n].pc = "last"
  /\ \E g \in Wild :
        LET th == call.t[n]
            tcols(src) == convolve_1d(transpose(src), transpose(th.dest),
                                      view.m_j_kernel, g)
        IN call' =
             [call EXCEPT !.t[n] =
                IF view.kind = "full"
                THEN [th EXCEPT !.pc = "done", !.src = NoBuffer,
                                !.dest = vw_rasterize(th.src, th.dest, th.bbox, g)]
                ELSE IF SeparableConvolutionView_passes(view) = 2
                THEN [th EXCEPT !.pc = "done", !.work = NoBuffer,
                                !.dest = transpose(tcols(th.work).dest)]
                ELSE IF Len(view.m_i_kernel) > 0
                THEN [th EXCEPT !.pc = "done", !.src = NoBuffer,
                                !.dest = convolve_1d(th.src, th.dest,
                                                     view.m_i_kernel, g).dest]
                ELSE [th EXCEPT !.pc = "done", !.src = NoBuffer,
                                !.dest = transpose(tcols(th.src).dest)]]
  /\ UNCHANGED <<view, ctor, m_kernel2d>>

\* Both calls have returned and the callers take their buffers.
Join ==
  /\ call.op = "concurrent"
  /\ \A n \in {1, 2} : call.t[n].pc = "done"
  /\ call' = Idle
  /\ UNCHANGED <<view, ctor, m_kernel2d>>

NextConc ==
  \/ call = Idle /\ \E pair \in ConcPairs : Fork(pair)
  \/ \E n \in {1, 2} : Enter(n)
  \/ \E n \in {1, 2} : RowPass(n)
  \/ \E n \in {1, 2} : LastPass(n)
  \/ Join

\* Pairs of concurrent rasterize calls on both views, every interleaving of
\* their steps.
SpecConc == Init /\ [][NextConc]_vars

(* --------------- two point evaluations on one view at once ------------- *)
\* The pixels the two threads ask for: the first one inside the image, the
\* second one outside.
RacePoints == <<<<0, 0, 0>>, <<-1, -1, 0>>>>

\* A call of operator()( x, y, p ) about to start.
CallStart(pt) ==
  [pc |-> "test", x |-> pt[1], y |-> pt[2], p |-> pt[3],
   built |-> FALSE, n |-> 0, torn |-> FALSE, value |-> 0]

\* Two threads evaluate a pixel each on the same separable view.  sync:
\* the callers serialize the calls on the instance, one begins only when
\* the other has not begun or has returned.  unwritten: the cells of
\* m_kernel2d not assigned since it was last sized.
Race(sync) ==
  /\ call = Idle
  /\ view.kind = "sep"
  /\ call' = [op |-> "race", sync |-> sync, unwritten |-> {},
              t |-> <<CallStart(RacePoints[1]), CallStart(RacePoints[2])>>]
  /\ UNCHANGED <<view, ctor, m_kernel2d>>

\* Thread n enters operator() and tests m_kernel2d.cols()==0 (line 237).
Test(n) ==
  /\ call.op = "race"
  /\ call.t[n].pc = "test"
  /\ call.sync => call.t[3 - n].pc \in {"test", "done"}
  /\ call' = [call EXCEPT !.t[n].pc = IF SeparableConvolutionView_unbuilt(m_kernel2d)
                                       THEN "size" ELSE "read",
                           !.t[n].built = SeparableConvolutionView_unbuilt(m_kernel2d)]
  /\ UNCHANGED <<view, ctor, m_kernel2d>>

\* Thread n sizes the kernel (line 199).
SetSize(n) ==
  /\ call.op = "race"
  /\ call.t[n].pc = "size"
  /\ \E g \in Wild : m_kernel2d' = generate2DKernel_set_size(view, g)
  /\ call' = [call EXCEPT !.t[n].pc = "fill", !.t[n].n = 0,
                           !.unwritten = DOMAIN m_kernel2d'.w]
  /\ UNCHANGED <<view, ctor>>

\* Thread n assigns the next weight (lines 200-202).
Fill(n) ==
  /\ call.op = "race"
  /\ call.t[n].pc = "fill"
  /\ m_kernel2d' = generate2DKernel_assign(view, m_kernel2d, call.t[n].n)
  /\ call' = [call EXCEPT
                 !.t[n].n = @ + 1,
                 !.t[n].pc = IF call.t[n].n + 1 = m_kernel2d.cols * m_kernel2d.rows
                             THEN "read" ELSE "fill",
                 !.unwritten = @ \ {generate2DKernel_cell(view, call.t[n].n)}]
  /\ UNCHANGED <<view, ctor>>

\* Thread n reads the kernel and the source and returns the value (lines
\* 238-249).  torn: the kernel it read had cells not yet assigned.
Read(n) ==
  /\ call.op = "race"
  /\ call.t[n].pc = "read"
  /\ \E g \in Wild :
        call' = [call EXCEPT
                   !.t[n].pc = "done",
                   !.t[n].torn = (call.unwritten # {}),
                   !.t[n].value = SeparableConvolutionView_call(
                                    view, m_kernel2d, call.t[n].x, call.t[n].y,
                                    call.t[n].p, g).value]
  /\ UNCHANGED <<view, ctor, m_kernel2d>>

\* Both calls have returned.
JoinRace ==
  /\ call.op = "race"
  /\ \A n \in {1, 2} : call.t[n].pc = "done"
  /\ call' = Idle
  /\ UNCHANGED <<view, ctor, m_kernel2d>>

\* One separable view of a one-plane image.
InitRace == InitSep /\ view.m_image.planes = 1

NextRace ==
  \/ \E sync \in BOOLEAN : Race(sync)
  \/ \E n \in {1, 2} : Test(n)
  \/ \E n \in {1, 2} : SetSize(n)
  \/ \E n \in {1, 2} : Fill(n)
  \/ \E n \in {1, 2} : Read(n)
  \/ JoinRace

\* Pairs of point evaluations on one separable view, serialized by the
\* callers or not, every interleaving of their steps.
SpecRace == InitRace /\ [][NextRace]_vars

(* ------------------------ what the claims speak of --------------------- *)
\* E(x,y,p): the source of the view read through its edge policy.
E(x, y, p) ==
  edge_extend(view.m_image, view.m_edge, x, y, p, 0)

InImage(x, y) ==
  x >= 0 /\ x < view.m_image.cols /\ y >= 0 /\ y < view.m_image.rows

\* The source pixel itself.
Pixel(x, y, p) ==
  view.m_image.child.data[<<x, y, p>>]

\* sum over 0<=i<kCols, 0<=j<kRows of K(i,j) * E(x+ci-i, y+cj-j, p)
Convolution(K, ci, cj, x, y, p) ==
  FnSum([q \in (0 .. K.cols - 1) \X (0 .. K.rows - 1) |->
           K.w[q] * E(x + ci - q[1], y + cj - q[2], p)])

AtPoint == call.op = "point"

AtRaster == call.op = "rasterize"

\* The pixels of the rasterized region, and where pixel q lies in the view.
DestPixels == DOMAIN call.dest.data

DestX(q) == call.bbox.x + q[1]

DestY(q) == call.bbox.y + q[2]

(* C1: point evaluation of the full 2D view at every coordinate is the    *)
(* sum of K(i,j) * E(x+ci-i, y+cj-j, p) over the kernel: convolution with *)
(* the kernel reversed on both axes, the origin tap on the pixel (x,y).   *)
C1_TrueConvolution ==
  (AtPoint /\ view.kind = "full") =>
     call.value = Convolution(view.m_kernel.child, view.m_ci, view.m_cj,
                              call.x, call.y, call.p)

\* A 2x2 kernel with its origin off centre, evaluated across the border.
C1_Witness ==
  /\ AtPoint /\ view.kind = "full"
  /\ view.m_kernel.cols = 2 /\ view.m_kernel.rows = 2
  /\ view.m_ci = 1 /\ view.m_cj = 0
  /\ view.m_image.cols = 2 /\ ~call.fast /\ call.value > 0


(* C2: a separable view with non-empty factors I and J and the full view  *)
(* built with the outer-product kernel K(i,j)=I[i]*J[j], the same origin  *)
(* and the same edge policy give identical values at every (x,y,p), for   *)
(* point evaluation and for the rasterization of any region.              *)
OuterProduct(ik, jk) ==
  Kernel(Len(ik), Len(jk),
         [q \in (0 .. Len(ik) - 1) \X (0 .. Len(jk) - 1) |-> ik[q[1] + 1] * jk[q[2] + 1]])

FullTwin ==
  ConvolutionView(view.m_image, OuterProduct(view.m_i_kernel, view.m_j_kernel),
                  view.m_ci, view.m_cj, view.m_edge)

C2_SeparableEqualsFull ==
  (view.kind = "sep" /\ Len(view.m_i_kernel) >= 1 /\ Len(view.m_j_kernel) >= 1) =>
     /\ AtPoint =>
          call.value = ConvolutionView_call(FullTwin, call.x, call.y, call.p, 0).value
     /\ AtRaster =>
          call.dest = ConvolutionView_rasterize(
                        FullTwin,
                        NewImageView(call.bbox.w, call.bbox.h, view.m_image.planes),
                        call.bbox, 0)

(* C3: in point evaluation of either view, whenever the interior test     *)
(* x>=ci', y>=cj', x<=imgCols-kCols+ci', y<=imgRows-kRows+cj' holds the    *)
(* fast branch is the one taken, every sample it reads lies inside the    *)
(* image, and its value is the value of the edge-extended branch at the   *)
(* same coordinate, for every edge policy.  kCols x kRows are the extents *)
(* of the kernel correlated with; the margin of an empty factor sequence  *)
(* is 0.                                                                  *)
KCols ==
  IF view.kind = "full" THEN view.m_kernel.cols ELSE Max(Len(view.m_i_kernel), 1)

KRows ==
  IF view.kind = "full" THEN view.m_kernel.rows ELSE Max(Len(view.m_j_kernel), 1)

MarginX ==
  IF view.kind = "sep" /\ Len(view.m_i_kernel) = 0 THEN 0 ELSE KCols - 1 - view.m_ci

MarginY ==
  IF view.kind = "sep" /\ Len(view.m_j_kernel) = 0 THEN 0 ELSE KRows - 1 - view.m_cj

InteriorTest(x, y) ==
  /\ x >= MarginX
  /\ y >= MarginY
  /\ x <= view.m_image.cols - KCols + MarginX
  /\ y <= view.m_image.rows - KRows + MarginY

EdgeBranchValue(x, y, p) ==
  IF view.kind = "full"
  THEN ConvolutionView_slow(view, x, y, p, 0).value
  ELSE SeparableConvolutionView_slow(view, m_kernel2d, x, y, p, 0).value

C3_FastEqualsSlow ==
  AtPoint =>
     /\ InteriorTest(call.x, call.y) => call.fast
     /\ call.fast =>
          /\ ~call.wild
          /\ call.value = EdgeBranchValue(call.x, call.y, call.p)

\* The one interior pixel of a 2x2 image under a 2x2 kernel with its origin
\* off centre, on the separable view.
C3_Witness ==
  /\ AtPoint /\ view.kind = "sep" /\ call.fast
  /\ KCols = 2 /\ KRows = 2 /\ view.m_ci = 1
  /\ view.m_image.cols = 2 /\ view.m_image.rows = 2
  /\ InteriorTest(call.x, call.y)

(* C5: the 5x5 all-ones image under the 3x3 all-ones kernel, default      *)
(* origin and zero padding, through the full view, is 9 at (2,2) and 4 at *)
(* the corner (0,0).                                                      *)
Scenario5x5 ==
  /\ view.kind = "full" /\ ctor = "default" /\ view.m_edge = "Zero"
  /\ view.m_image.child = OnesImage(5, 5, 1)
  /\ view.m_kernel.child = OnesKernel(3, 3)

C5_Scenario ==
  (Scenario5x5 /\ AtPoint) =>
     /\ (call.x = 2 /\ call.y = 2 /\ call.p = 0) => call.value = 9
     /\ (call.x = 0 /\ call.y = 0 /\ call.p = 0) => call.value = 4

C5_Witness ==
  Scenario5x5 /\ AtPoint /\ call.x = 0 /\ call.y = 0 /\ call.value = 4 /\ ~call.fast

(* C6: a 1x1 kernel of weight 1 with the default origin reproduces the    *)
(* source: at every coordinate inside the image, under every edge policy, *)
(* point evaluation and rasterization of the full view give the source    *)
(* pixel.                                                                 *)
IdentityKernel ==
  /\ view.kind = "full" /\ ctor = "default"
  /\ view.m_kernel.child = OnesKernel(1, 1)

C6_IdentityKernel ==
  IdentityKernel =>
     /\ (AtPoint /\ InImage(call.x, call.y)) => call.value = Pixel(call.x, call.y, call.p)
     /\ AtRaster =>
          \A q \in DestPixels :
             InImage(DestX(q), DestY(q)) =>
                call.dest.data[q] = Pixel(DestX(q), DestY(q), q[3])

\* A region half inside the image, two planes, periodic extension.
C6_Witness ==
  /\ IdentityKernel /\ AtRaster /\ view.m_edge = "Periodic"
  /\ view.m_image.planes = 2 /\ view.m_image.cols = 2
  /\ call.bbox.x = 1 /\ call.bbox.w = 2 /\ call.bbox.y = -1
  /\ call.dest.data[<<0, 1, 1>>] = Pixel(1, 0, 1)

(* C7: built without an origin, both views put the origin of an axis of   *)
(* extent n>=1 at floor((n-1)/2): extent 5 gives 2, extent 4 gives 1.     *)
Extents ==
  IF view.kind = "full"
  THEN <<view.m_kernel.cols, view.m_kernel.rows>>
  ELSE <<Len(view.m_i_kernel), Len(view.m_j_kernel)>>

C7_DefaultOrigin ==
  ctor = "default" =>
     /\ Extents[1] >= 1 => view.m_ci = (Extents[1] - 1) \div 2
     /\ Extents[2] >= 1 => view.m_cj = (Extents[2] - 1) \div 2
     /\ Extents[1] = 5 => view.m_ci = 2
     /\ Extents[2] = 4 => view.m_cj = 1

C7_Witness ==
  /\ ctor = "default" /\ view.kind = "sep" /\ Extents = <<5, 4>>
  /\ view.m_ci = 2 /\ view.m_cj = 1 /\ AtPoint


(* C4: for either view, rasterizing a region in one call and rasterizing  *)
(* it as two adjacent halves in two calls write the same values: the      *)
(* value of a pixel does not depend on the rectangle it was asked in.     *)
C4_TilesEqualWhole ==
  call.op = "tile" =>
     \A q \in DOMAIN call.tile.data :
        call.tile.data[q] =
          call.dest.data[<<q[1] + call.tbox.x - call.bbox.x,
                           q[2] + call.tbox.y - call.bbox.y, q[3]>>]

(* C8: a separable view with exactly one factor sequence empty filters    *)
(* along the other axis only: with I empty the output at (x,y,p) is the   *)
(* sum over j of J[j] * E(x, y+cj-j, p), and symmetrically with J empty,  *)
(* for point evaluation and for rasterization, whatever origin is stored  *)
(* for the empty axis.                                                    *)
OneAxis ==
  /\ view.kind = "sep"
  /\ (Len(view.m_i_kernel) = 0) # (Len(view.m_j_kernel) = 0)

AlongOneAxis(x, y, p) ==
  IF Len(view.m_i_kernel) = 0
  THEN FnSum([j \in 0 .. Len(view.m_j_kernel) - 1 |->
                view.m_j_kernel[j + 1] * E(x, y + view.m_cj - j, p)])
  ELSE FnSum([i \in 0 .. Len(view.m_i_kernel) - 1 |->
                view.m_i_kernel[i + 1] * E(x + view.m_ci - i, y, p)])

C8_EmptyAxis ==
  OneAxis =>
     /\ AtPoint => call.value = AlongOneAxis(call.x, call.y, call.p)
     /\ AtRaster =>
          \A q \in DestPixels :
             call.dest.data[q] = AlongOneAxis(DestX(q), DestY(q), q[3])

\* Row factors empty with the origin the default constructor leaves there,
\* two column factors, two planes, a region across the border.
C8_Witness ==
  /\ OneAxis /\ AtRaster /\ ctor = "default"
  /\ Len(view.m_i_kernel) = 0 /\ Len(view.m_j_kernel) = 2
  /\ view.m_ci \in {-1, 2147483647}
  /\ view.m_image.planes = 2 /\ call.bbox.y = -1 /\ call.bbox.h = 2
  /\ call.dest.data[<<0, 1, 1>>] = AlongOneAxis(call.bbox.x, 0, 1)

(* C9: a separable view with both factor sequences empty passes the       *)
(* edge-extended source through: rasterization of any region writes       *)
(* E(x,y,p) to every pixel, and point evaluation gives E(x,y,p) too, with *)
(* the 1x1 kernel [1].                                                    *)
NoAxis ==
  /\ view.kind = "sep"
  /\ Len(view.m_i_kernel) = 0 /\ Len(view.m_j_kernel) = 0

C9_PassThrough ==
  NoAxis =>
     /\ AtRaster =>
          \A q \in DestPixels : call.dest.data[q] = E(DestX(q), DestY(q), q[3])
     /\ AtPoint =>
          /\ call.value = E(call.x, call.y, call.p)
          /\ m_kernel2d = [cols |-> 1, rows |-> 1, w |-> (<<0, 0>> :> 1)]

C9_Witness ==
  /\ NoAxis /\ AtPoint /\ ~InImage(call.x, call.y)
  /\ view.m_edge = "Constant" /\ call.value = E(call.x, call.y, call.p)
  /\ call.value > 0 /\ call.built

(* C10: a full view over a kernel with no pixels (0x0) is the identity:   *)
(* point evaluation inside the image gives the source pixel.              *)
C10_EmptyKernelIdentity ==
  (view.kind = "full" /\ view.m_kernel.cols = 0 /\ view.m_kernel.rows = 0
     /\ AtPoint /\ InImage(call.x, call.y)) =>
     call.value = Pixel(call.x, call.y, call.p)

(* C13: in a single-threaded sequence of point evaluations, rasterize and *)
(* prerasterize calls on one separable view the 2D kernel is empty until  *)
(* the first point evaluation, is built by that evaluation and by nothing *)
(* else, has extents (max(ni,1), max(nj,1)) from then on, and is never    *)
(* rebuilt, resized or modified afterwards.                               *)
MemoExtents ==
  \/ m_kernel2d = EmptyKernel
  \/ /\ m_kernel2d.cols = Max(Len(view.m_i_kernel), 1)
     /\ m_kernel2d.rows = Max(Len(view.m_j_kernel), 1)

C13_BuiltOnce ==
  [][/\ MemoExtents /\ MemoExtents'
     /\ (m_kernel2d # EmptyKernel) => (m_kernel2d' = m_kernel2d)
     /\ (m_kernel2d' # m_kernel2d) => (call'.op = "point" /\ call'.built)
     /\ (call'.op = "point") =>
           /\ m_kernel2d' # EmptyKernel
           /\ call'.built = (m_kernel2d = EmptyKernel)
     /\ (call'.op \in {"rasterize", "prerasterize"}) => (m_kernel2d' = m_kernel2d)
    ]_vars

\* A region is rasterized after the kernel of factors of 2 and 0 weights was
\* built, and the kernel is still the 2x1 one.
C13_Witness ==
  /\ call.op = "prerasterize" /\ view.kind = "sep"
  /\ Len(view.m_i_kernel) = 2 /\ Len(view.m_j_kernel) = 0
  /\ m_kernel2d.cols = 2 /\ m_kernel2d.rows = 1

(* C14: once built, the 2D kernel M has extents (max(ni,1), max(nj,1))    *)
(* and M(ni'-1-i, nj'-1-j) = I'[i]*J'[j], where I', J' are the factors    *)
(* with an empty one replaced by [1] and ni', nj' their lengths; the      *)
(* point value, the correlation of the source with M with no further      *)
(* flip, is the convolution with I' and J' about the view's origin (the   *)
(* only tap of a replaced factor lies on the pixel).                      *)
Replaced(k) == IF Len(k) = 0 THEN <<1>> ELSE k

ReplacedOrigin(k, c) == IF Len(k) = 0 THEN 0 ELSE c

C14_Kernel2D ==
  (view.kind = "sep" /\ m_kernel2d # EmptyKernel) =>
     LET I == Replaced(view.m_i_kernel)
         J == Replaced(view.m_j_kernel)
     IN /\ m_kernel2d.cols = Max(Len(view.m_i_kernel), 1)
        /\ m_kernel2d.rows = Max(Len(view.m_j_kernel), 1)
        /\ \A i \in 0 .. Len(I) - 1, j \in 0 .. Len(J) - 1 :
              m_kernel2d.w[<<Len(I) - 1 - i, Len(J) - 1 - j>>] = I[i + 1] * J[j + 1]
        /\ AtPoint =>
              call.value = Convolution(OuterProduct(I, J),
                                       ReplacedOrigin(view.m_i_kernel, view.m_ci),
                                       ReplacedOrigin(view.m_j_kernel, view.m_cj),
                                       call.x, call.y, call.p)

\* The first point evaluation of a view with two row weights and no column
\* weight built a 2x1 kernel whose weights differ.
C14_Witness ==
  /\ AtPoint /\ view.kind = "sep" /\ call.built
  /\ Len(view.m_i_kernel) = 2 /\ Len(view.m_j_kernel) = 0
  /\ m_kernel2d.cols = 2 /\ m_kernel2d.rows = 1
  /\ m_kernel2d.w[<<0, 0>>] # m_kernel2d.w[<<1, 0>>]
  /\ call.value > 0

(* C15: in tiled rasterization of the full view the fast interior branch  *)
(* is the one executed for every pixel of the requested region; the       *)
(* edge branch is taken for none, whether the pixel lies within the       *)
(* kernel margin of the border or the region reaches past the image.      *)
C15_AlwaysFast ==
  (AtRaster /\ view.kind = "full") =>
     \A q \in DOMAIN call.pre.trace : call.pre.trace[q].fast

(* C15, amended: the prerasterized view keeps the extents of the image,   *)
(* so for every pixel of the region the fast branch is executed exactly   *)
(* where the kernel footprint lies inside the image, and the edge branch  *)
(* elsewhere; that branch runs under NoEdgeExtension, applies no policy   *)
(* and stores the same value as point evaluation of the view.             *)
C15_BranchByImage ==
  (AtRaster /\ view.kind = "full") =>
     /\ call.pre.m_edge = "NoEdge"
     /\ \A q \in DOMAIN call.pre.trace :
           /\ call.pre.trace[q].fast = InteriorTest(DestX(q), DestY(q))
           /\ call.dest.data[q] = ConvolutionView_call(view, DestX(q), DestY(q), q[3], 0).value

\* A 2x2 region across the corner of a 2x2 image under a 2x2 kernel: one
\* pixel took the fast branch and another the edge branch.
C15_Witness ==
  /\ AtRaster /\ view.kind = "full"
  /\ view.m_kernel.cols = 2 /\ view.m_kernel.rows = 2
  /\ view.m_image.cols = 2 /\ view.m_image.rows = 2
  /\ call.bbox = BBox2i(-1, -1, 2, 2)
  /\ \E q \in DOMAIN call.pre.trace : call.pre.trace[q].fast
  /\ \E q \in DOMAIN call.pre.trace : ~call.pre.trace[q].fast

(* C16: rasterizing the region (bx,by,w,h) of the full view, the          *)
(* materialized source rectangle has its top-left at (bx-ci', by-cj') and *)
(* the size (w+kCols-1, h+kRows-1), with ci'=kCols-1-ci, cj'=kRows-1-cj;  *)
(* the prerasterized view holds the unflipped kernel reversed once and    *)
(* the same origin; and every source coordinate read for any pixel of the *)
(* region lies inside that rectangle.                                     *)
C16_Halo ==
  (AtRaster /\ view.kind = "full") =>
     LET K == view.m_kernel.child
     IN /\ call.pre.src_bbox =
             BBox2i(call.bbox.x - (K.cols - 1 - view.m_ci),
                    call.bbox.y - (K.rows - 1 - view.m_cj),
                    call.bbox.w + K.cols - 1, call.bbox.h + K.rows - 1)
        /\ call.pre.m_kernel.child = K
        /\ \A k \in DOMAIN K.w :
              call.pre.m_kernel.w[k] = K.w[<<K.cols - 1 - k[1], K.rows - 1 - k[2]>>]
        /\ call.pre.m_ci = view.m_ci /\ call.pre.m_cj = view.m_cj
        /\ \A q \in DOMAIN call.pre.trace : ~call.pre.trace[q].wild

\* A 2x2 region across the corner of the image under a 2x2 kernel with the
\* origin (1,0): the rectangle is the 3x3 one at (-1,-2), and pixels of the
\* region were read on the edge branch.
C16_Witness ==
  /\ AtRaster /\ view.kind = "full"
  /\ view.m_kernel.cols = 2 /\ view.m_kernel.rows = 2
  /\ view.m_ci = 1 /\ view.m_cj = 0
  /\ call.bbox = BBox2i(-1, -1, 2, 2)
  /\ call.pre.src_bbox = BBox2i(-1, -2, 3, 3)
  /\ \E q \in DOMAIN call.pre.trace : ~call.pre.trace[q].fast

(* C17: rasterizing a region of the separable view with at least one      *)
(* active axis, the materialized source rectangle is the region extended  *)
(* by ni-1-ci columns before and ci columns after when ni>0, by nj-1-cj   *)
(* rows before and cj rows after when nj>0, and not at all along an empty *)
(* axis, so its size is (w + (ni>0 ? ni-1 : 0), h + (nj>0 ? nj-1 : 0));   *)
(* and every read of each 1D pass stays inside the buffer it reads from.  *)
C17_SeparableHalo ==
  (AtRaster /\ view.kind = "sep" /\ call.buf.passes > 0) =>
     LET ni == Len(view.m_i_kernel)
         nj == Len(view.m_j_kernel)
         c == call.buf.child_bbox
         b == call.bbox
     IN /\ c.x = b.x - (IF ni > 0 THEN ni - 1 - view.m_ci ELSE 0)
        /\ c.y = b.y - (IF nj > 0 THEN nj - 1 - view.m_cj ELSE 0)
        /\ c.x + c.w = b.x + b.w + (IF ni > 0 THEN view.m_ci ELSE 0)
        /\ c.y + c.h = b.y + b.h + (IF nj > 0 THEN view.m_cj ELSE 0)
        /\ c.w = b.w + (IF ni > 0 THEN ni - 1 ELSE 0)
        /\ c.h = b.h + (IF nj > 0 THEN nj - 1 ELSE 0)
        /\ ~call.buf.wild

\* Two row weights with the origin 1 and no column weight, a 2x2 region
\* across the corner of the image: the rectangle is 3 wide and 2 high.
C17_Witness ==
  /\ AtRaster /\ view.kind = "sep"
  /\ Len(view.m_i_kernel) = 2 /\ Len(view.m_j_kernel) = 0 /\ view.m_ci = 1
  /\ call.bbox = BBox2i(-1, -1, 2, 2)
  /\ call.buf.passes = 1
  /\ call.buf.child_bbox = BBox2i(-1, -1, 3, 2)

(* C18: in the two-pass rasterization of a separable view over a source   *)
(* of P >= 1 planes the row pass stores only inside the intermediate      *)
(* buffer, and after the column pass every plane 0..P-1 of every pixel of *)
(* the destination holds the filtered value, the one point evaluation     *)
(* gives at the same (x,y,p); no plane of the destination is left         *)
(* unwritten.                                                             *)
C18_EveryPlane ==
  (AtRaster /\ view.kind = "sep" /\ call.buf.passes = 2) =>
     /\ ~call.overrun
     /\ \A q \in DestPixels :
           call.dest.data[q] =
             SeparableConvolutionView_call(view, generate2DKernel(view),
                                           DestX(q), DestY(q), q[3], 0).value

(* C11: rasterize writes no member of the view (the memoized 2D kernel is *)
(* neither built nor modified) and stores only in buffers of its own      *)
(* call, so two rasterize calls on one view for disjoint regions, run     *)
(* concurrently in any interleaving, leave in their destinations what the *)
(* same calls leave when run one after the other.                         *)
Sequential(b) ==
  IF view.kind = "full"
  THEN {ConvolutionView_rasterize(view, NewImageView(b.w, b.h, view.m_image.planes), b, 0)}
  ELSE {Overrun(SeparableConvolutionView_rasterize(
                  view, NewImageView(b.w, b.h, view.m_image.planes), b, 0).dest,
                1, hit, g) : hit \in BOOLEAN, g \in Wild}

C11_ConcurrentTiles ==
  (call.op = "concurrent") =>
     /\ m_kernel2d = EmptyKernel
     /\ \A n \in {1, 2} :
           /\ ~call.t[n].overrun
           /\ call.t[n].pc = "done" => call.t[n].dest \in Sequential(call.t[n].bbox)

(* C12: when two threads evaluate pixels of one freshly constructed       *)
(* separable view without synchronization, a state is reachable in which  *)
(* both have passed the test for an unbuilt kernel and both build it, and *)
(* one in which a thread reads the kernel after it was sized and before   *)
(* all of its weights were written; when the point evaluations of the     *)
(* instance are serialized no such state is reachable, and each call      *)
(* returns the convolution.                                               *)
BothBuild ==
  call.t[1].built /\ call.t[2].built

TornRead ==
  \E n \in {1, 2} : call.t[n].torn

C12_SerializedIsSafe ==
  (call.op = "race" /\ call.sync) =>
     /\ ~BothBuild
     /\ ~TornRead
     /\ \A n \in {1, 2} :
           call.t[n].pc = "done" =>
             call.t[n].value =
               Convolution(OuterProduct(Replaced(view.m_i_kernel), Replaced(view.m_j_kernel)),
                           ReplacedOrigin(view.m_i_kernel, view.m_ci),
                           ReplacedOrigin(view.m_j_kernel, view.m_cj),
                           call.t[n].x, call.t[n].y, call.t[n].p)

\* Without synchronization: both threads passed the test and built the
\* kernel, and one of them read it while the other's weights were missing.
C12_Witness ==
  /\ call.op = "race" /\ ~call.sync
  /\ BothBuild /\ TornRead
  /\ m_kernel2d.cols = 2

====
